---- MODULE Spec2Model ----
\* Asynchronous query lifecycle of MainWindow (src/ui/main_window.py):
\* execute_query, the worker signals finished/error, the timeout watchdog,
\* cancel_current_query and close_tab, over the dictionaries
\* running_queries and tab_timers, the thread pool, the timers, the
\* history store, the page of each tab's results stack, the modal dialogs
\* the handlers open, the schema-tree actions that call query_table_rows
\* and closeEvent.
\*
\* The text of a tab's query editor, the page of its editor stack and the
\* item selected in its combo box are written by the user at will between
\* any two handlers and by no handler modelled here, so a handler that
\* reads them takes the value it finds as an input (text, view, conn)
\* instead of reading a variable. The connection store is not edited while
\* the window is open: the dialogs that add and delete connections are
\* outside this model.
EXTENDS Integers, Sequences, FiniteSets, TLC

\* ---------------------------------------------------------------- bounds
MaxTabs == 2          \* tab widgets ever created (add_tab calls)
MaxTasks == 2         \* RunnableQuery objects ever created, under Spec
MaxTasksOneTab == 3   \* RunnableQuery objects ever created, under SpecOneTab

\* QThreadPool.globalInstance().maxThreadCount(), the host's thread count
PoolSize == 1

\* ------------------------------------------------------ program constants
QUERY_TIMEOUT == 60000

\* ------------------------------------------------------------ input sets
TabIds == 1..MaxTabs
ConnIds == {"c1"}
\* Editor contents, as sequences of characters: blank, no terminator,
\* terminated and followed by a blank.
Texts == { <<" ">>, <<"a">>, <<"a", ";", " ">> }
\* The editor contents a handler finds when a query of the tab ends.
TextsAtEnd == { <<"a", ";", " ">> }
\* The editor contents a handler finds when the user has edited the query
\* since submitting it.
TextsEdited == TextsAtEnd \cup { <<"b">> }
\* editor_stack.currentIndex(): 0 Query view, 1 History view
Views == {0, 1}
\* Row counts the executor reports.
RowCounts == {1}
\* Elapsed seconds the executor reports.
ElapsedTimes == {2}

VARIABLES
    tab_widget,        \* sequence of the open tab widgets, in tab order
    current_index,     \* tab_widget.currentIndex(), 1-based
    tabs_created,      \* number of tab widgets created so far
    connections,       \* connection ids held by the connection store
    tab_status_label,  \* per tab: what its tab_status_label shows
    results_stack,     \* per tab: results_stacked_widget.currentIndex()
    running_queries,   \* self.running_queries: tab -> task (RunnableQuery)
    tab_timers,        \* self.tab_timers: tab -> task whose two timers it holds
    progress_timer,    \* tasks whose progress QTimer is active
    timeout_timer,     \* tasks whose single-shot timeout QTimer is active
    tasks,             \* sequence of all RunnableQuery objects created
    signal_queue,      \* emitted finished/error signals not yet delivered
    history,           \* rows appended by save_query_to_history
    cancel_action,     \* cancel_action.isEnabled()
    window,            \* the main window: "open", "waiting" (closeEvent waits
                       \* for the pool), "closed" or "aborted"
    dialogs,           \* the handlers waiting in a modal dialog they opened,
                       \* outermost first: each runs a nested event loop
    last               \* the handler that ran last and the branch it took

vars == << tab_widget, current_index, tabs_created, connections,
           tab_status_label, results_stack, running_queries, tab_timers,
           progress_timer, timeout_timer, tasks, signal_queue, history,
           cancel_action, window, dialogs, last >>

\* ------------------------------------------------------- dict operations
\* d[k] = v
Put(d, k, v) == [x \in (DOMAIN d) \cup {k} |-> IF x = k THEN v ELSE d[x]]
\* del d[k]
Del(d, k) == [x \in (DOMAIN d) \ {k} |-> d[x]]
\* The key left in the dictionary.
DelIfPresent_kept(d, k) == d

\* The whole dictionary cleared instead of the one key deleted.
DelIfPresent_all(d, k) == [x \in {} |-> 0]

\* "if k in d: del d[k]"
DelIfPresent(d, k) == IF k \in DOMAIN d THEN Del(d, k) ELSE d
EmptyDict == [x \in {} |-> 0]

\* ---------------------------------------------------------- str methods
IsSpace(c) == c = " "

RECURSIVE lstrip(_)
lstrip(s) == IF s # <<>> /\ IsSpace(Head(s)) THEN lstrip(Tail(s)) ELSE s

RECURSIVE rstrip(_)
rstrip(s) == IF s # <<>> /\ IsSpace(s[Len(s)])
             THEN rstrip(SubSeq(s, 1, Len(s) - 1)) ELSE s

\* str.strip()
strip(s) == rstrip(lstrip(s))

\* str.endswith(';')
endswith_semicolon(s) == s # <<>> /\ s[Len(s)] = ";"

\* ------------------------------------------------------------- tab access
\* tab_widget.currentWidget()
current_tab == tab_widget[current_index]
OpenTabs == {tab_widget[i] : i \in 1..Len(tab_widget)}

\* db_combo_box.currentData() of a tab, as the id of the connection or
\* "None": load_joined_items fills every combo box with the stored
\* connections, an empty combo box has no current data.
ComboData == IF connections = {} THEN {"None"} ELSE connections

\* The handler that ran last: its name, the tab and the task it ran for and
\* the branch of its code it took.
Event(o, t, k, b) == [op |-> o, tab |-> t, task |-> k, branch |-> b]
NoEvent == Event("init", 0, 0, "init")
\* What the worker threads and the user's clicks on tabs do is no handler's
\* branch.
EnvEvent == Event("env", 0, 0, "env")

Init ==
    /\ tab_widget = <<1>>
    /\ current_index = 1
    /\ tabs_created = 1
    /\ connections \in SUBSET ConnIds
    /\ tab_status_label = [t \in TabIds |-> "Ready"]
    /\ results_stack = [t \in TabIds |-> 0]
    /\ running_queries = EmptyDict
    /\ tab_timers = EmptyDict
    /\ progress_timer = {}
    /\ timeout_timer = {}
    /\ tasks = <<>>
    /\ signal_queue = <<>>
    /\ history = <<>>
    /\ cancel_action = FALSE
    /\ window = "open"
    /\ dialogs = <<>>
    /\ last = NoEvent

\* ------------------------------------------------------------ bookkeeping
NewTask(t, conn, query) ==
    [tab |-> t, conn |-> conn, query |-> query, cancelled |-> FALSE,
     state |-> "queued", kind |-> "none", row_count |-> 0, elapsed |-> 0]

\* A RunnableQuery whose run() has returned and whose signal, if any, has
\* been delivered: nothing refers to its fields any more.
Finished ==
    [tab |-> 0, conn |-> "None", query |-> <<>>, cancelled |-> FALSE,
     state |-> "done", kind |-> "none", row_count |-> 0, elapsed |-> 0]

\* runnable.cancel(): sets the task's cancel flag
cancel(ts, k) == [ts EXCEPT ![k].cancelled = TRUE]

\* The call left out: no row is saved.
save_query_to_history_dropped(h, conn_id, query, status, rows, duration, k) == h

\* db_manager.save_query_to_history(conn_id, query, status, rows, duration);
\* task is the RunnableQuery the saving handler ran for.
save_query_to_history(h, conn_id, query, status, rows, duration, k) ==
    Append(h, [conn_id |-> conn_id, query |-> query, status |-> status,
               row_count |-> rows, duration |-> duration, task |-> k])

\* The cancel action left as it is.
DisableIfNoneRunning_never(rq, enabled) == enabled

\* "if not self.running_queries: self.cancel_action.setEnabled(False)"
DisableIfNoneRunning(rq, enabled) == IF DOMAIN rq = {} THEN FALSE ELSE enabled

\* ---------------------------------------------------------- results stack
\* lines 551-571: the fourth page added to the results stack holds the spinner
SpinnerPage == 3

\* The results stack left on the page it shows.
stop_spinner_leaves(rs, t, success) == rs

\* lines 1015-1037: the results table (0) on success, the message view (1)
\* otherwise
stop_spinner(rs, t, success) == [rs EXCEPT ![t] = IF success THEN 0 ELSE 1]

\* ------------------------------------------------------------ thread pool
\* The RunnableQuery objects a pool thread is executing, and those waiting
\* in the pool's queue.
Executing(ts) == {k \in 1..Len(ts) : ts[k].state = "running"}
Queued(ts) == {k \in 1..Len(ts) : ts[k].state = "queued"}

\* QThreadPool.start(runnable): runs at once when a thread is free, else the
\* runnable is queued.
PoolStart(ts, k) ==
    IF Cardinality(Executing(ts)) < PoolSize
    THEN [ts EXCEPT ![k].state = "running"]
    ELSE ts

\* A pool thread whose runnable returned takes the first queued runnable.
PoolNext(ts) ==
    IF Queued(ts) # {} /\ Cardinality(Executing(ts)) < PoolSize
    THEN LET k == CHOOSE j \in Queued(ts) : \A i \in Queued(ts) : j <= i
         IN [ts EXCEPT ![k].state = "running"]
    ELSE ts

\* ----------------------------------------------------------- execute_query
\* line 893: the editor stack shows the History view
InHistoryView(view) == view = 1

\* The check of line 898 left out.
AlreadyRunning_never(t) == FALSE

\* line 898: "if current_tab in self.running_queries"
AlreadyRunning(t) == t \in DOMAIN running_queries

\* The check of line 911 left out.
MissingSemicolon_never(text) == FALSE

\* lines 908-911: query = toPlainText().strip(); "if not query.endswith(';')"
MissingSemicolon(text) == ~endswith_semicolon(strip(text))

\* The connection check of line 919 left out.
ConnectionOrQueryEmpty_queryonly(conn, query) == query = <<>>

\* line 919: "if not conn_data or not query"
ConnectionOrQueryEmpty(conn, query) == conn = "None" \/ query = <<>>

\* every return before line 923 leaves the window as it was
Rejected ==
    UNCHANGED << tab_widget, current_index, tabs_created, connections,
                 results_stack, tab_status_label, running_queries, tab_timers,
                 progress_timer, timeout_timer, tasks, signal_queue, history,
                 cancel_action >>

\* lines 931-939: both timers are created and registered, the ticker started
RegisterTimers(tt, t, k) == Put(tt, t, k)

\* The execute action is triggered while the current tab shows `view`, its
\* editor holds `text` and its combo box has `conn` selected; max_tasks
\* bounds the number of runnables created.
execute_query(view, text, conn, max_tasks) ==
    LET t == current_tab
        query == strip(text)
        k == Len(tasks) + 1
    IN
    \/ /\ InHistoryView(view)
       /\ last' = Event("execute_query", t, 0, "history_view")
       /\ Rejected
    \/ /\ ~InHistoryView(view)
       /\ AlreadyRunning(t)
       /\ last' = Event("execute_query", t, 0, "already_running")
       /\ Rejected
    \/ /\ ~InHistoryView(view)
       /\ ~AlreadyRunning(t)
       /\ MissingSemicolon(text)
       /\ last' = Event("execute_query", t, 0, "missing_semicolon")
       /\ Rejected
    \/ /\ ~InHistoryView(view)
       /\ ~AlreadyRunning(t)
       /\ ~MissingSemicolon(text)
       /\ ConnectionOrQueryEmpty(conn, query)
       /\ last' = Event("execute_query", t, 0, "empty")
       /\ Rejected
    \/ /\ ~InHistoryView(view)
       /\ ~AlreadyRunning(t)
       /\ ~MissingSemicolon(text)
       /\ ~ConnectionOrQueryEmpty(conn, query)
       /\ k <= max_tasks
       /\ tab_timers' = RegisterTimers(tab_timers, t, k)
       /\ progress_timer' = progress_timer \cup {k}
       \* lines 940-949: the runnable is registered and handed to the pool
       /\ running_queries' = Put(running_queries, t, k)
       /\ cancel_action' = TRUE
       /\ tasks' = PoolStart(Append(tasks, NewTask(t, conn, query)), k)
       \* line 950: timeout_timer.start(QUERY_TIMEOUT)
       /\ timeout_timer' = timeout_timer \cup {k}
       /\ last' = Event("execute_query", t, k, "accepted")
       \* line 926: results_stack.setCurrentIndex(3), the spinner page
       /\ results_stack' = [results_stack EXCEPT ![t] = SpinnerPage]
       /\ UNCHANGED << tab_widget, current_index, tabs_created, connections,
                       tab_status_label, signal_queue, history >>

\* ------------------------------------------------------------- the worker
\* RunnableQuery.run() returns: the executor call ended and, the cancel flag
\* not being set, the worker thread emits finished (with the row count and
\* the elapsed time) or error; the signal is queued to the GUI thread.
WorkerSettle(k, kind, rows, secs) ==
    /\ k \in Executing(tasks)
    /\ ~tasks[k].cancelled
    /\ tasks' = PoolNext([tasks EXCEPT ![k].state = "emitted",
                                       ![k].kind = kind,
                                       ![k].row_count = rows,
                                       ![k].elapsed = secs])
    /\ signal_queue' = Append(signal_queue, k)
    /\ last' = EnvEvent
    /\ UNCHANGED << tab_widget, current_index, tabs_created, connections,
                    results_stack, tab_status_label, running_queries,
                    tab_timers, progress_timer, timeout_timer, history,
                    cancel_action >>

\* RunnableQuery.run() returns with the cancel flag set: nothing is emitted.
WorkerAbandon(k) ==
    /\ k \in Executing(tasks)
    /\ tasks[k].cancelled
    /\ tasks' = PoolNext([tasks EXCEPT ![k] = Finished])
    /\ last' = EnvEvent
    /\ UNCHANGED << tab_widget, current_index, tabs_created, connections,
                    results_stack, tab_status_label, running_queries,
                    tab_timers, progress_timer, timeout_timer, signal_queue,
                    history, cancel_action >>

\* ------------------------------------------- handle_query_result / _error
\* The timers of the entry left running.
StopBothTimers_none(active, tt, t) == active

\* lines 960-963, 992-995, 1068-1071, 608-612: "if tab in self.tab_timers":
\* stop both timers of the entry (applied to each of the two timer sets)
StopBothTimers(active, tt, t) ==
    IF t \in DOMAIN tt THEN active \ {tt[t]} ELSE active

\* The block of lines 960-963 left out: the timers of the tab are left running
\* and registered.
handle_query_result_keeps_timers(k) ==
    LET t == tasks[k].tab
        rq == DelIfPresent(running_queries, t)
    IN
    /\ signal_queue # <<>>
    /\ k = Head(signal_queue)
    /\ tasks[k].kind = "finished"
    /\ signal_queue' = Tail(signal_queue)
    /\ tasks' = [tasks EXCEPT ![k].state = "done"]
    /\ history' = save_query_to_history(history, tasks[k].conn, tasks[k].query,
                      "Success", tasks[k].row_count, tasks[k].elapsed, k)
    /\ running_queries' = rq
    /\ cancel_action' = DisableIfNoneRunning(rq, cancel_action)
    /\ tab_status_label' = [tab_status_label EXCEPT ![t] = "Success"]
    /\ results_stack' = stop_spinner(results_stack, t, TRUE)
    /\ last' = Event("handle_query_result", t, k, "done")
    /\ UNCHANGED << tab_widget, current_index, tabs_created, connections,
                    tab_timers, progress_timer, timeout_timer >>

\* The finished signal of task k is delivered to the GUI thread.
handle_query_result(k) ==
    LET t == tasks[k].tab
        rq == DelIfPresent(running_queries, t)
    IN
    /\ signal_queue # <<>>
    /\ k = Head(signal_queue)
    /\ tasks[k].kind = "finished"
    /\ signal_queue' = Tail(signal_queue)
    /\ tasks' = [tasks EXCEPT ![k] = Finished]
    /\ progress_timer' = StopBothTimers(progress_timer, tab_timers, t)
    /\ timeout_timer' = StopBothTimers(timeout_timer, tab_timers, t)
    /\ tab_timers' = DelIfPresent(tab_timers, t)
    /\ history' = save_query_to_history(history, tasks[k].conn, tasks[k].query,
                      "Success", tasks[k].row_count, tasks[k].elapsed, k)
    /\ running_queries' = rq
    /\ cancel_action' = DisableIfNoneRunning(rq, cancel_action)
    /\ tab_status_label' = [tab_status_label EXCEPT ![t] = "Success"]
    /\ results_stack' = stop_spinner(results_stack, t, TRUE)
    /\ last' = Event("handle_query_result", t, k, "done")
    /\ UNCHANGED << tab_widget, current_index, tabs_created, connections >>

\* The error signal of task k is delivered to the GUI thread; the handler
\* reads the tab's combo box (conn) and editor (text).
handle_query_error(k, text, conn) ==
    LET t == tasks[k].tab
        rq == DelIfPresent(running_queries, t)
    IN
    /\ signal_queue # <<>>
    /\ k = Head(signal_queue)
    /\ tasks[k].kind = "error"
    /\ signal_queue' = Tail(signal_queue)
    /\ tasks' = [tasks EXCEPT ![k] = Finished]
    /\ progress_timer' = StopBothTimers(progress_timer, tab_timers, t)
    /\ timeout_timer' = StopBothTimers(timeout_timer, tab_timers, t)
    /\ tab_timers' = DelIfPresent(tab_timers, t)
    /\ history' = save_query_to_history(history, conn, strip(text),
                                        "Failed", 0, 0, k)
    /\ running_queries' = rq
    /\ cancel_action' = DisableIfNoneRunning(rq, cancel_action)
    /\ tab_status_label' = [tab_status_label EXCEPT ![t] = "Error"]
    /\ results_stack' = stop_spinner(results_stack, t, FALSE)
    /\ last' = Event("handle_query_error", t, k, "done")
    /\ UNCHANGED << tab_widget, current_index, tabs_created, connections >>

\* ----------------------------------------------------- handle_query_timeout
\* The check of line 1040 never true.
IsCurrentTask_never(t, k) == FALSE

\* line 1040: "if self.running_queries.get(tab) is runnable"
IsCurrentTask(t, k) == t \in DOMAIN running_queries /\ running_queries[t] = k

\* line 1049: self.QUERY_TIMEOUT / 1000 left as milliseconds.
TimeoutSeconds_ms == QUERY_TIMEOUT

\* line 1049: self.QUERY_TIMEOUT / 1000, the duration saved to the history
TimeoutSeconds == QUERY_TIMEOUT \div 1000

\* The ticker left running by lines 1052-1054.
StopTicker_not(active, tt, t) == active

\* lines 1052-1054: only the progress ticker of the entry is stopped
StopTicker(active, tt, t) ==
    IF t \in DOMAIN tt THEN active \ {tt[t]} ELSE active

\* The single-shot timeout QTimer created for task k fires.
handle_query_timeout(k, text, conn) ==
    LET t == tasks[k].tab
        rq == DelIfPresent(running_queries, t)
    IN
    /\ k \in timeout_timer
    /\ timeout_timer' = timeout_timer \ {k}
    /\ IF ~IsCurrentTask(t, k)
       THEN /\ last' = Event("handle_query_timeout", t, k, "stale")
            /\ UNCHANGED << tab_widget, current_index, tabs_created,
                            connections, results_stack, tab_status_label,
                            running_queries, tab_timers, progress_timer, tasks,
                            signal_queue, history, cancel_action >>
       ELSE /\ tasks' = cancel(tasks, k)
            /\ history' = save_query_to_history(history, conn, strip(text),
                              "Timed Out", 0, TimeoutSeconds, k)
            /\ progress_timer' = StopTicker(progress_timer, tab_timers, t)
            /\ tab_timers' = DelIfPresent(tab_timers, t)
            /\ running_queries' = rq
            /\ cancel_action' = DisableIfNoneRunning(rq, cancel_action)
            /\ tab_status_label' =
                   [tab_status_label EXCEPT ![t] = "Timed Out"]
            /\ results_stack' = stop_spinner(results_stack, t, FALSE)
            /\ last' = Event("handle_query_timeout", t, k, "timed_out")
            /\ UNCHANGED << tab_widget, current_index, tabs_created,
                            connections, signal_queue >>

\* ----------------------------------------------------- cancel_current_query
\* The handler disabling the cancel action when it finds no runnable.
NothingToCancel_disables ==
    /\ cancel_action' = FALSE
    /\ UNCHANGED << tab_widget, current_index, tabs_created, connections,
                    results_stack, tab_status_label, running_queries,
                    tab_timers, progress_timer, timeout_timer, tasks,
                    signal_queue, history >>

\* lines 1065-1066: "if runnable:" is false and the handler returns
NothingToCancel ==
    UNCHANGED << tab_widget, current_index, tabs_created, connections,
                 results_stack, tab_status_label, running_queries, tab_timers,
                 progress_timer, timeout_timer, tasks, signal_queue, history,
                 cancel_action >>

\* The cancel action is triggered (a QAction triggers only while enabled);
\* the handler reads the current tab's combo box (conn) and editor (text).
cancel_current_query(text, conn) ==
    LET t == current_tab
        rq == DelIfPresent(running_queries, t)
    IN
    /\ cancel_action
    /\ IF t \notin DOMAIN running_queries
       THEN /\ last' = Event("cancel_current_query", t, 0, "idle")
            /\ NothingToCancel
       ELSE /\ tasks' = cancel(tasks, running_queries[t])
            /\ progress_timer' = StopBothTimers(progress_timer, tab_timers, t)
            /\ timeout_timer' = StopBothTimers(timeout_timer, tab_timers, t)
            /\ tab_timers' = DelIfPresent(tab_timers, t)
            /\ tab_status_label' =
                   [tab_status_label EXCEPT ![t] = "Cancelled"]
            /\ history' = save_query_to_history(history, conn, strip(text),
                              "Cancelled", 0, 0, running_queries[t])
            /\ running_queries' = rq
            /\ cancel_action' = DisableIfNoneRunning(rq, cancel_action)
            /\ last' = Event("cancel_current_query", t, running_queries[t],
                             "cancelled")
            /\ results_stack' = stop_spinner(results_stack, t, FALSE)
            /\ UNCHANGED << tab_widget, current_index, tabs_created,
                            connections, signal_queue >>

\* ------------------------------------------------------ update_timer_label
\* A tick of the progress QTimer created for task k.
update_timer_label(k) ==
    LET t == tasks[k].tab IN
    /\ k \in progress_timer
    /\ IF t \notin DOMAIN tab_timers
       THEN /\ last' = Event("update_timer_label", t, k, "return")
            /\ UNCHANGED tab_status_label
       ELSE /\ last' = Event("update_timer_label", t, k, "tick")
            /\ tab_status_label' = [tab_status_label EXCEPT ![t] = "Running"]
    /\ UNCHANGED << tab_widget, current_index, tabs_created, connections,
                    results_stack, running_queries, tab_timers, progress_timer,
                    timeout_timer, tasks, signal_queue, history,
                    cancel_action >>

\* ------------------------------------------------------- add_tab, close_tab
\* The "New" button: a tab is appended and becomes the current one.
add_tab ==
    LET t == tabs_created + 1 IN
    /\ tabs_created < MaxTabs
    /\ tabs_created' = t
    /\ tab_widget' = Append(tab_widget, t)
    /\ current_index' = Len(tab_widget) + 1
    /\ tab_status_label' = [tab_status_label EXCEPT ![t] = "Ready"]
    \* lines 533-573: a new results_stacked_widget shows its first page
    /\ results_stack' = [results_stack EXCEPT ![t] = 0]
    /\ last' = Event("add_tab", t, 0, "added")
    /\ UNCHANGED << connections, running_queries, tab_timers, progress_timer,
                    timeout_timer, tasks, signal_queue, history,
                    cancel_action >>

RemoveAt(s, i) == SubSeq(s, 1, i - 1) \o SubSeq(s, i + 1, Len(s))

\* QTabWidget.removeTab(i) on n tabs: the current widget stays current; when
\* it is the one removed, the tab to its right becomes current, or the new
\* last tab.
IndexAfterRemove(cur, i, n) ==
    IF i < cur THEN cur - 1
    ELSE IF cur > n - 1 THEN n - 1 ELSE cur

\* lines 603-604: "if tab in self.running_queries: ...cancel()"
CloseCancels(ts, t) ==
    IF t \in DOMAIN running_queries THEN cancel(ts, running_queries[t]) ELSE ts

\* The tab never removed.
MayRemoveTab_never == FALSE

\* The check of line 613 left out: removeTab whatever the count.
MayRemoveTab_always == TRUE

\* line 613: "if self.tab_widget.count() > 1"
MayRemoveTab == Len(tab_widget) > 1

\* lines 603-612 save nothing to the history
CloseSaves(h, t) == h

\* tabCloseRequested(index)
close_tab(index) ==
    LET t == tab_widget[index]
        rq == DelIfPresent(running_queries, t)
        k == IF t \in DOMAIN running_queries THEN running_queries[t] ELSE 0
    IN
    /\ index \in 1..Len(tab_widget)
    /\ tasks' = CloseCancels(tasks, t)
    /\ running_queries' = rq
    /\ cancel_action' = IF t \in DOMAIN running_queries
                        THEN DisableIfNoneRunning(rq, cancel_action)
                        ELSE cancel_action
    /\ progress_timer' = StopBothTimers(progress_timer, tab_timers, t)
    /\ timeout_timer' = StopBothTimers(timeout_timer, tab_timers, t)
    /\ tab_timers' = DelIfPresent(tab_timers, t)
    /\ history' = CloseSaves(history, t)
    /\ IF MayRemoveTab
       THEN /\ tab_widget' = RemoveAt(tab_widget, index)
            /\ current_index' = IndexAfterRemove(current_index, index,
                                                 Len(tab_widget))
            /\ last' = Event("close_tab", t, k, "removed")
       ELSE /\ UNCHANGED << tab_widget, current_index >>
            /\ last' = Event("close_tab", t, k, "kept")
    /\ UNCHANGED << tabs_created, connections, results_stack, tab_status_label,
                    signal_queue >>

\* ------------------------------------------------------------- user input
\* The user selects another tab.
SwitchTab(i) ==
    /\ i \in 1..Len(tab_widget)
    /\ i # current_index
    /\ current_index' = i
    /\ last' = EnvEvent
    /\ UNCHANGED << tab_widget, tabs_created, connections, results_stack,
                    tab_status_label, running_queries, tab_timers,
                    progress_timer, timeout_timer, tasks, signal_queue,
                    history, cancel_action >>

\* lines 581-589: one of the buttons Output (0), Messages (1), Notifications
\* (2) of tab t is clicked
switch_results_view(t, index) ==
    /\ t \in OpenTabs
    /\ IF results_stack[t] # SpinnerPage
       THEN /\ results_stack' = [results_stack EXCEPT ![t] = index]
            /\ last' = Event("switch_results_view", t, 0, "switched")
       ELSE /\ UNCHANGED results_stack
            /\ last' = Event("switch_results_view", t, 0, "refused")
    /\ UNCHANGED << tab_widget, current_index, tabs_created, connections,
                    tab_status_label, running_queries, tab_timers,
                    progress_timer, timeout_timer, tasks, signal_queue,
                    history, cancel_action >>

\* --------------------------------------------------------- query_table_rows
\* item_data.get('db_type') of the schema-tree item
DbTypes == {"postgres", "sqlite", "other"}
\* The limit argument: 0 stands for None.
Limits == {0, 100}
\* The order argument.
Orders == {"none", "desc"}

\* lines 1275-1286: the statement, as the sequence of its words and blanks
GeneratedQuery(db_type, limit, order) ==
    LET select == IF db_type = "postgres"
                  THEN << "SELECT", " ", "*", " ", "FROM", " ",
                          "\"schema\".\"table\"" >>
                  ELSE IF db_type = "sqlite"
                  THEN << "SELECT", " ", "*", " ", "FROM", " ", "\"table\"" >>
                  ELSE << >>
        ordered == IF order # "none"
                   THEN select \o << " ", "ORDER", " ", "BY", " ", "1", " ",
                                     "DESC" >>
                   ELSE select
    IN IF limit # 0
       THEN ordered \o << " ", "LIMIT", " ", "100" >>
       ELSE ordered

\* One of the schema-tree actions that call query_table_rows with
\* execute_now=True: add_tab(), the connection of the item selected in the new
\* tab's combo box (conn), the statement put in its editor, the new tab made
\* current and execute_query() called on it.
query_table_rows(db_type, limit, order, conn) ==
    LET t == tabs_created + 1
        text == GeneratedQuery(db_type, limit, order)
        query == strip(text)
        k == Len(tasks) + 1
    IN
    /\ tabs_created < MaxTabs
    /\ tabs_created' = t
    /\ tab_widget' = Append(tab_widget, t)
    /\ current_index' = Len(tab_widget) + 1
    /\ tab_status_label' = [tab_status_label EXCEPT ![t] = "Ready"]
    \* execute_query on the new tab: it shows the Query view and is in
    \* running_queries not yet
    /\ IF MissingSemicolon(text)
       THEN /\ last' = Event("query_table_rows", t, 0, "missing_semicolon")
            /\ results_stack' = [results_stack EXCEPT ![t] = 0]
            /\ UNCHANGED << running_queries, tab_timers, progress_timer,
                            timeout_timer, tasks, cancel_action >>
       ELSE IF ConnectionOrQueryEmpty(conn, query)
       THEN /\ last' = Event("query_table_rows", t, 0, "empty")
            /\ results_stack' = [results_stack EXCEPT ![t] = 0]
            /\ UNCHANGED << running_queries, tab_timers, progress_timer,
                            timeout_timer, tasks, cancel_action >>
       ELSE /\ k <= MaxTasks
            /\ results_stack' = [results_stack EXCEPT ![t] = SpinnerPage]
            /\ tab_timers' = RegisterTimers(tab_timers, t, k)
            /\ progress_timer' = progress_timer \cup {k}
            /\ running_queries' = Put(running_queries, t, k)
            /\ cancel_action' = TRUE
            /\ tasks' = PoolStart(Append(tasks, NewTask(t, conn, query)), k)
            /\ timeout_timer' = timeout_timer \cup {k}
            /\ last' = Event("query_table_rows", t, k, "accepted")
    /\ UNCHANGED << connections, signal_queue, history >>

\* ------------------------------------------------------------- closeEvent
\* waitForDone() returning at once, whatever the pool does.
PoolDrained_nowait(ts) == TRUE

\* line 1321: thread_pool.waitForDone() returns when no pool thread runs a
\* runnable and none is queued
PoolDrained(ts) == Executing(ts) = {} /\ Queued(ts) = {}

\* lines 1319-1321: the window is asked to close; the GUI thread calls
\* thread_pool.waitForDone() and runs no slot until it returns.
closeEvent_wait ==
    /\ window = "open"
    /\ window' = "waiting"
    /\ UNCHANGED dialogs
    /\ last' = Event("closeEvent", 0, 0, "waiting")
    /\ UNCHANGED << tab_widget, current_index, tabs_created, connections,
                    results_stack, tab_status_label, running_queries,
                    tab_timers, progress_timer, timeout_timer, tasks,
                    signal_queue, history, cancel_action >>

\* lines 1321-1322: waitForDone() returns and the close event is accepted.
closeEvent_accept ==
    /\ window = "waiting"
    /\ PoolDrained(tasks)
    /\ window' = "closed"
    /\ UNCHANGED dialogs
    /\ last' = Event("closeEvent", 0, 0, "accepted")
    /\ UNCHANGED << tab_widget, current_index, tabs_created, connections,
                    results_stack, tab_status_label, running_queries,
                    tab_timers, progress_timer, timeout_timer, tasks,
                    signal_queue, history, cancel_action >>

\* ------------------------------------------------ the history store fails
\* save_query_to_history raises. No handler catches the exception: the slot
\* ends at the call, with what it did before it, and the exception leaves
\* the slot unhandled, on which PyQt6 aborts the process.
\*
\* handle_query_result, lines 960-965: the timers are stopped before the call.
handle_query_result_raises(k) ==
    LET t == tasks[k].tab IN
    /\ window = "open"
    /\ signal_queue # <<>>
    /\ k = Head(signal_queue)
    /\ tasks[k].kind = "finished"
    /\ signal_queue' = Tail(signal_queue)
    /\ progress_timer' = StopBothTimers(progress_timer, tab_timers, t)
    /\ timeout_timer' = StopBothTimers(timeout_timer, tab_timers, t)
    /\ tab_timers' = DelIfPresent(tab_timers, t)
    /\ window' = "aborted"
    /\ UNCHANGED dialogs
    /\ last' = Event("handle_query_result", t, k, "raised")
    /\ UNCHANGED << tab_widget, current_index, tabs_created, connections,
                    results_stack, tab_status_label, running_queries, tasks,
                    history, cancel_action >>

\* handle_query_error, lines 992-1008: the timers are stopped and the label
\* is set before the call.
handle_query_error_raises(k) ==
    LET t == tasks[k].tab IN
    /\ window = "open"
    /\ signal_queue # <<>>
    /\ k = Head(signal_queue)
    /\ tasks[k].kind = "error"
    /\ signal_queue' = Tail(signal_queue)
    /\ progress_timer' = StopBothTimers(progress_timer, tab_timers, t)
    /\ timeout_timer' = StopBothTimers(timeout_timer, tab_timers, t)
    /\ tab_timers' = DelIfPresent(tab_timers, t)
    /\ tab_status_label' = [tab_status_label EXCEPT ![t] = "Error"]
    /\ window' = "aborted"
    /\ UNCHANGED dialogs
    /\ last' = Event("handle_query_error", t, k, "raised")
    /\ UNCHANGED << tab_widget, current_index, tabs_created, connections,
                    results_stack, running_queries, tasks, history,
                    cancel_action >>

\* handle_query_timeout, lines 1040-1050: cancel() is called and the label
\* is set before the call; the ticker is stopped after it.
handle_query_timeout_raises(k) ==
    LET t == tasks[k].tab IN
    /\ window = "open"
    /\ k \in timeout_timer
    /\ IsCurrentTask(t, k)
    /\ timeout_timer' = timeout_timer \ {k}
    /\ tasks' = cancel(tasks, k)
    /\ tab_status_label' = [tab_status_label EXCEPT ![t] = "Timed Out"]
    /\ window' = "aborted"
    /\ UNCHANGED dialogs
    /\ last' = Event("handle_query_timeout", t, k, "raised")
    /\ UNCHANGED << tab_widget, current_index, tabs_created, connections,
                    results_stack, running_queries, tab_timers, progress_timer,
                    signal_queue, history, cancel_action >>

\* cancel_current_query, lines 1064-1083: cancel() is called, the timers are
\* stopped and the label is set before the call.
cancel_current_query_raises ==
    LET t == current_tab IN
    /\ window = "open"
    /\ cancel_action
    /\ t \in DOMAIN running_queries
    /\ tasks' = cancel(tasks, running_queries[t])
    /\ progress_timer' = StopBothTimers(progress_timer, tab_timers, t)
    /\ timeout_timer' = StopBothTimers(timeout_timer, tab_timers, t)
    /\ tab_timers' = DelIfPresent(tab_timers, t)
    /\ tab_status_label' = [tab_status_label EXCEPT ![t] = "Cancelled"]
    /\ window' = "aborted"
    /\ UNCHANGED dialogs
    /\ last' = Event("cancel_current_query", t, running_queries[t], "raised")
    /\ UNCHANGED << tab_widget, current_index, tabs_created, connections,
                    results_stack, running_queries, signal_queue, history,
                    cancel_action >>

\* ------------------------------------------------------------------- Next
\* A slot runs on the GUI thread, which runs slots while the window is open
\* and its thread is not blocked; the user dismisses a dialog the slot opens
\* before anything else happens.
OnGuiThread(A) == window = "open" /\ A /\ UNCHANGED << window, dialogs >>

\* A pool thread runs as long as the process does.
OnPoolThread(A) ==
    window \in {"open", "waiting"} /\ A /\ UNCHANGED << window, dialogs >>

\* The slots of the query lifecycle: the handlers of the actions, of the
\* worker signals and of the timers.
GuiThread(max_tasks) ==
    \/ OnGuiThread(\E view \in Views, text \in Texts, conn \in ComboData :
                       execute_query(view, text, conn, max_tasks))
    \/ OnGuiThread(\E text \in TextsAtEnd, conn \in ComboData :
                       cancel_current_query(text, conn))
    \/ OnGuiThread(\E i \in TabIds : close_tab(i))
    \/ OnGuiThread(\E k \in 1..Len(tasks) : update_timer_label(k))
    \/ OnGuiThread(\E k \in 1..Len(tasks) : handle_query_result(k))
    \/ OnGuiThread(\E k \in 1..Len(tasks), text \in TextsAtEnd,
                      conn \in ComboData : handle_query_error(k, text, conn))
    \/ OnGuiThread(\E k \in 1..Len(tasks), text \in TextsAtEnd,
                      conn \in ComboData : handle_query_timeout(k, text, conn))

\* What the pool threads do.
WorkerThreads ==
    \/ OnPoolThread(\E k \in 1..Len(tasks), rows \in RowCounts,
                       secs \in ElapsedTimes :
                           WorkerSettle(k, "finished", rows, secs))
    \/ OnPoolThread(\E k \in 1..Len(tasks) : WorkerSettle(k, "error", 0, 0))
    \/ OnPoolThread(\E k \in 1..Len(tasks) : WorkerAbandon(k))

\* The query lifecycle.
Lifecycle(max_tasks) == GuiThread(max_tasks) \/ WorkerThreads

\* The user adds tabs and selects tabs.
Tabs ==
    \/ OnGuiThread(add_tab)
    \/ OnGuiThread(\E i \in TabIds : SwitchTab(i))

\* The window stays open and the history store accepts every row.
Next == Lifecycle(MaxTasks) \/ Tabs

Spec == Init /\ [][Next]_vars

\* The window with the one tab it opens with: no tab is added.
NextOneTab == Lifecycle(MaxTasksOneTab)

SpecOneTab == Init /\ [][NextOneTab]_vars

\* The terminal transitions during which the history store fails.
StoreFails ==
    \/ \E k \in 1..Len(tasks) : handle_query_result_raises(k)
    \/ \E k \in 1..Len(tasks) : handle_query_error_raises(k)
    \/ \E k \in 1..Len(tasks) : handle_query_timeout_raises(k)
    \/ cancel_current_query_raises

\* The history store may fail.
NextStoreFails == Lifecycle(MaxTasks) \/ Tabs \/ StoreFails

SpecStoreFails == Init /\ [][NextStoreFails]_vars

\* The timeout QTimer of task k fires and its slot runs.
TimeoutFires(k) ==
    OnGuiThread(\E text \in TextsAtEnd, conn \in ComboData :
                    handle_query_timeout(k, text, conn))

\* One tab, the window open: the event loop delivers the timeout of every
\* armed timer; nothing is assumed of the workers, of the pool or of the
\* user.
SpecTimersFire ==
    /\ Init
    /\ [][NextOneTab]_vars
    /\ \A k \in 1..MaxTasksOneTab : WF_vars(TimeoutFires(k))

\* The user may close the window.
NextClose ==
    \/ Lifecycle(MaxTasks)
    \/ Tabs
    \/ closeEvent_wait
    \/ closeEvent_accept

SpecClose == Init /\ [][NextClose]_vars

\* The query lifecycle while the user edits the query text of a tab whose
\* query is running.
NextEdited ==
    \/ OnGuiThread(\E view \in Views, text \in Texts, conn \in ComboData :
                       execute_query(view, text, conn, MaxTasks))
    \/ OnGuiThread(\E text \in TextsEdited, conn \in ComboData :
                       cancel_current_query(text, conn))
    \/ OnGuiThread(\E i \in TabIds : close_tab(i))
    \/ OnGuiThread(\E k \in 1..Len(tasks) : update_timer_label(k))
    \/ OnGuiThread(\E k \in 1..Len(tasks) : handle_query_result(k))
    \/ OnGuiThread(\E k \in 1..Len(tasks), text \in TextsEdited,
                      conn \in ComboData : handle_query_error(k, text, conn))
    \/ OnGuiThread(\E k \in 1..Len(tasks), text \in TextsEdited,
                      conn \in ComboData : handle_query_timeout(k, text, conn))
    \/ WorkerThreads

SpecEdited == Init /\ [][NextEdited]_vars

\* ---------------------------------------------------------- modal dialogs
\* The branches that end in QMessageBox.information / QMessageBox.warning,
\* which runs an event loop of its own until the user dismisses the dialog:
\* lines 894, 899 and 912 of execute_query, line 1060 of
\* handle_query_timeout.
OpensDialog(ev) ==
    \/ /\ ev.op = "execute_query"
       /\ ev.branch \in {"history_view", "already_running",
                          "missing_semicolon"}
    \/ /\ ev.op = "handle_query_timeout"
       /\ ev.branch = "timed_out"

\* The handlers waiting in a dialog once the handler of event ev has run up
\* to its dialog or to its end.
Opened(ds, ev) == IF OpensDialog(ev) THEN Append(ds, ev.op) ELSE ds

\* A slot the user triggers: a modal dialog blocks the input to the window.
ByUser(A) ==
    /\ window = "open"
    /\ dialogs = <<>>
    /\ A
    /\ dialogs' = Opened(dialogs, last')
    /\ UNCHANGED window

\* A slot of a timer or of a queued worker signal: the event loop of an open
\* dialog delivers them as the main one does.
ByEventLoop(A) ==
    /\ window = "open"
    /\ A
    /\ dialogs' = Opened(dialogs, last')
    /\ UNCHANGED window

\* execute_query going on to register the tab after its dialog.
ReturnsAfterDialog_continues ==
    /\ running_queries' = Put(running_queries, current_tab, Len(tasks))
    /\ tab_timers' = Put(tab_timers, current_tab, Len(tasks))
    /\ UNCHANGED << tab_widget, current_index, tabs_created, connections,
                    tab_status_label, results_stack, progress_timer,
                    timeout_timer, tasks, signal_queue, history,
                    cancel_action >>

\* lines 896, 901, 916: "return" follows the dialog; line 1061: the dialog
\* is the last statement of handle_query_timeout
ReturnsAfterDialog ==
    UNCHANGED << tab_widget, current_index, tabs_created, connections,
                 tab_status_label, results_stack, running_queries,
                 tab_timers, progress_timer, timeout_timer, tasks,
                 signal_queue, history, cancel_action >>

\* The user dismisses the innermost dialog and the handler that opened it
\* goes on.
dialog_closed ==
    /\ window = "open"
    /\ dialogs # <<>>
    /\ dialogs' = SubSeq(dialogs, 1, Len(dialogs) - 1)
    /\ last' = Event(dialogs[Len(dialogs)], 0, 0, "returned")
    /\ ReturnsAfterDialog
    /\ UNCHANGED window

\* The query lifecycle with the dialogs the handlers open.
NextDialogs ==
    \/ ByUser(\E view \in Views, text \in Texts, conn \in ComboData :
                  execute_query(view, text, conn, MaxTasks))
    \/ ByUser(\E text \in TextsAtEnd, conn \in ComboData :
                  cancel_current_query(text, conn))
    \/ ByUser(\E i \in TabIds : close_tab(i))
    \/ ByUser(add_tab)
    \/ ByUser(\E i \in TabIds : SwitchTab(i))
    \/ ByEventLoop(\E k \in 1..Len(tasks) : update_timer_label(k))
    \/ ByEventLoop(\E k \in 1..Len(tasks) : handle_query_result(k))
    \/ ByEventLoop(\E k \in 1..Len(tasks), text \in TextsAtEnd,
                      conn \in ComboData : handle_query_error(k, text, conn))
    \/ ByEventLoop(\E k \in 1..Len(tasks), text \in TextsAtEnd,
                      conn \in ComboData :
                          handle_query_timeout(k, text, conn))
    \/ WorkerThreads
    \/ dialog_closed

SpecDialogs == Init /\ [][NextDialogs]_vars

\* The user also clicks the result-view buttons of the open tabs.
NextResultsView ==
    \/ Lifecycle(MaxTasks)
    \/ Tabs
    \/ OnGuiThread(\E t \in TabIds, index \in 0..2 :
                       switch_results_view(t, index))

SpecResultsView == Init /\ [][NextResultsView]_vars

\* The user also runs the schema-tree actions that query a table.
NextSchemaTree ==
    \/ Lifecycle(MaxTasks)
    \/ Tabs
    \/ OnGuiThread(\E db_type \in DbTypes, limit \in Limits,
                      order \in Orders, conn \in ComboData :
                          query_table_rows(db_type, limit, order, conn))

SpecSchemaTree == Init /\ [][NextSchemaTree]_vars

\* ========================================================== properties
\* The history rows saved for task k.
EntriesOf(k) == {i \in 1..Len(history) : history[i].task = k}

\* The tasks a pool thread executes or the pool holds queued, per tab, that
\* have not been signalled to cancel.
ActiveTasks(t) ==
    {k \in 1..Len(tasks) :
        /\ tasks[k].tab = t
        /\ tasks[k].state \in {"queued", "running"}
        /\ ~tasks[k].cancelled}

\* The task is no tab's current task any more.
Terminated(k) == \A t \in DOMAIN running_queries : running_queries[t] # k

\* The status each terminal transition is to save.
OutcomeOf(op) ==
    CASE op = "handle_query_result" -> "Success"
      [] op = "handle_query_error" -> "Failed"
      [] op = "handle_query_timeout" -> "Timed Out"
      [] op = "cancel_current_query" -> "Cancelled"
      [] op = "close_tab" -> "Cancelled"
      [] OTHER -> "none"

\* The handler that ran last ended a task.
EndedATask ==
    /\ last.task # 0
    /\ last.branch \in {"done", "timed_out", "cancelled", "removed", "kept"}

\* C1: execute_query on a tab that is a key of running_queries dispatches
\* no task, starts no timer, saves no history row and leaves
\* running_queries and tab_timers as they were.
C1_RunningTabRejects ==
    [][ (/\ current_tab \in DOMAIN running_queries
         /\ \E view \in Views, text \in Texts, conn \in ComboData :
                execute_query(view, text, conn, MaxTasks))
        => UNCHANGED << tasks, progress_timer, timeout_timer, history,
                        running_queries, tab_timers >> ]_vars

\* C1: execute_query has just returned at the already-running check, in the
\* Query view.
C1_Witness ==
    /\ last.op = "execute_query"
    /\ last.branch = "already_running"
    /\ current_tab \in DOMAIN running_queries

\* C2: no task ever has two outcomes saved: once a cancel, a timeout, a
\* result or an error has ended it, every later event for it saves nothing.
C2_OneOutcomePerTask ==
    \A i, j \in 1..Len(history) :
        history[i].task = history[j].task => i = j

\* C3: a finished or error signal of a task that is not its tab's current
\* task changes neither running_queries nor tab_timers nor the history and
\* stops no timer.
C3_StaleSignalDiscarded ==
    [][ \A k \in 1..Len(tasks) :
            (/\ ~(/\ tasks[k].tab \in DOMAIN running_queries
                  /\ running_queries[tasks[k].tab] = k)
             /\ \/ handle_query_result(k)
                \/ \E text \in TextsAtEnd, conn \in ComboData :
                       handle_query_error(k, text, conn))
            => UNCHANGED << running_queries, tab_timers, history,
                            progress_timer, timeout_timer >> ]_vars

\* C4: every tab has at most one task that is dispatched, not settled and
\* not signalled to cancel.
C4_OneActiveTaskPerTab ==
    \A t \in TabIds : Cardinality(ActiveTasks(t)) <= 1

\* C5: every task that is no longer its tab's current task has exactly one
\* history row, and the row a terminal transition saves carries the status
\* of that transition.
C5_OneHistoryRowPerOutcome ==
    /\ \A k \in 1..Len(tasks) :
           Terminated(k) => Cardinality(EntriesOf(k)) = 1
    /\ EndedATask =>
           /\ history # <<>>
           /\ history[Len(history)].task = last.task
           /\ history[Len(history)].status = OutcomeOf(last.op)

\* C6: execute_query with a text whose stripped form does not end with ';'
\* (the empty text included) adds no tab_timers entry, starts no timer,
\* hands no runnable to the pool, leaves running_queries unchanged and
\* saves no history row.
C6_NoSemicolonRejected ==
    [][ \A view \in Views, text \in Texts, conn \in ComboData :
            (/\ ~(strip(text) # <<>> /\ strip(text)[Len(strip(text))] = ";")
             /\ execute_query(view, text, conn, MaxTasks))
            => UNCHANGED << tab_timers, progress_timer, timeout_timer,
                            tasks, running_queries, history >> ]_vars

\* C6: execute_query has just returned at the semicolon check.
C6_Witness ==
    /\ last.op = "execute_query"
    /\ last.branch = "missing_semicolon"
    /\ tasks = <<>>
    /\ history = <<>>

\* C7: close_tab on a tab in running_queries stops the tab's progress
\* ticker and timeout watchdog, sets the cancel flag of its task and saves
\* one history row with status "Cancelled" for it.
C7_CloseRunningTabCancels ==
    [][ \A i \in 1..Len(tab_widget) :
            (/\ tab_widget[i] \in DOMAIN running_queries
             /\ close_tab(i))
            => LET k == running_queries[tab_widget[i]] IN
               /\ k \notin progress_timer'
               /\ k \notin timeout_timer'
               /\ tasks'[k].cancelled
               /\ Len(history') = Len(history) + 1
               /\ history'[Len(history')].task = k
               /\ history'[Len(history')].status = "Cancelled" ]_vars

\* C8: between handlers a tab is a key of tab_timers iff it is a key of
\* running_queries, the entry's ticker and watchdog are those of the tab's
\* current task and both are active, and no other ticker or watchdog is
\* active.
C8_TimersIffRunning ==
    /\ DOMAIN tab_timers = DOMAIN running_queries
    /\ \A t \in DOMAIN tab_timers :
           /\ tab_timers[t] = running_queries[t]
           /\ tab_timers[t] \in progress_timer
           /\ tab_timers[t] \in timeout_timer
    /\ \A k \in progress_timer \cup timeout_timer :
           \E t \in DOMAIN tab_timers : tab_timers[t] = k

\* C8: a terminal transition has just made its tab Idle while another tab
\* is Running.
C8_Witness ==
    /\ EndedATask
    /\ last.tab \notin DOMAIN running_queries
    /\ DOMAIN running_queries # {}
    /\ history # <<>>

\* C9: the timeout of a tab's current task sets the task's cancel flag,
\* stops the ticker, removes the tab from running_queries and tab_timers
\* and saves one history row "Timed Out" with duration 60; the next
\* execute_query of a terminated text on that tab, in the Query view, is
\* accepted.
C9_TimeoutEndsCurrentTask ==
    [][ /\ \A k \in 1..Len(tasks) :
               (/\ tasks[k].tab \in DOMAIN running_queries
                /\ running_queries[tasks[k].tab] = k
                /\ \E text \in TextsAtEnd, conn \in ComboData :
                       handle_query_timeout(k, text, conn))
               => /\ tasks'[k].cancelled
                  /\ k \notin progress_timer'
                  /\ tasks[k].tab \notin DOMAIN running_queries'
                  /\ tasks[k].tab \notin DOMAIN tab_timers'
                  /\ Len(history') = Len(history) + 1
                  /\ history'[Len(history')].task = k
                  /\ history'[Len(history')].status = "Timed Out"
                  /\ history'[Len(history')].duration = 60
        /\ (/\ last.op = "handle_query_timeout"
            /\ last.branch = "timed_out"
            /\ current_tab = last.tab
            /\ \E conn \in connections :
                   execute_query(0, <<"a", ";", " ">>, conn, MaxTasks))
           => last'.branch = "accepted" ]_vars

\* C9: a query has just been accepted on a tab whose earlier task timed
\* out and is still executing on its pool thread.
C9_Witness ==
    /\ last.op = "execute_query"
    /\ last.branch = "accepted"
    /\ \E k \in 1..Len(tasks) :
           /\ k # last.task
           /\ tasks[k].tab = last.tab
           /\ tasks[k].state = "running"
           /\ tasks[k].cancelled
           /\ \E i \in EntriesOf(k) :
                  /\ history[i].status = "Timed Out"
                  /\ history[i].duration = 60

\* C10: cancel_current_query on a tab that is no key of running_queries
\* sets no cancel flag, stops no timer, saves no history row and leaves
\* running_queries, tab_timers and the cancel action as they were.
C10_CancelIdleIsNoOp ==
    [][ (/\ current_tab \notin DOMAIN running_queries
         /\ \E text \in TextsAtEnd, conn \in ComboData :
                cancel_current_query(text, conn))
        => UNCHANGED << tasks, progress_timer, timeout_timer, history,
                        running_queries, tab_timers, cancel_action >> ]_vars

\* C10: the cancel action, enabled by the query of another tab, has just
\* been triggered on an Idle tab.
C10_Witness ==
    /\ last.op = "cancel_current_query"
    /\ last.branch = "idle"
    /\ current_tab \notin DOMAIN running_queries
    /\ cancel_action


\* C11: cancel_current_query on a tab in running_queries sets the cancel
\* flag of the tab's task, stops its ticker and its watchdog, removes the
\* tab from tab_timers and running_queries and saves one history row
\* "Cancelled", whatever the worker thread does; the next execute_query of
\* a terminated text on that tab, in the Query view, is accepted.
C11_CancelEndsRunningTask ==
    [][ /\ (/\ tab_widget[current_index] \in DOMAIN running_queries
            /\ \E text \in TextsAtEnd, conn \in ComboData :
                   cancel_current_query(text, conn))
           => LET t == tab_widget[current_index]
                  k == running_queries[t]
              IN /\ tasks'[k].cancelled
                 /\ k \notin progress_timer'
                 /\ k \notin timeout_timer'
                 /\ t \notin DOMAIN tab_timers'
                 /\ t \notin DOMAIN running_queries'
                 /\ Len(history') = Len(history) + 1
                 /\ history'[Len(history')].task = k
                 /\ history'[Len(history')].status = "Cancelled"
        /\ (/\ last.op = "cancel_current_query"
            /\ last.branch = "cancelled"
            /\ current_tab = last.tab
            /\ \E conn \in connections :
                   execute_query(0, <<"a", ";", " ">>, conn, MaxTasks))
           => last'.branch = "accepted" ]_vars

\* C11: a query has just been accepted on a tab whose earlier task was
\* cancelled by the user and is still executing on its pool thread.
C11_Witness ==
    /\ last.op = "execute_query"
    /\ last.branch = "accepted"
    /\ \E k \in 1..Len(tasks) :
           /\ k # last.task
           /\ tasks[k].tab = last.tab
           /\ tasks[k].state = "running"
           /\ tasks[k].cancelled
           /\ \E i \in EntriesOf(k) : history[i].status = "Cancelled"


\* C12: a terminal transition during which save_query_to_history raises
\* still leaves its tab out of running_queries and tab_timers, with the
\* ticker and the watchdog of its task stopped.
C12_StoreFailureLeavesTabIdle ==
    last.branch = "raised" =>
        /\ last.tab \notin DOMAIN running_queries
        /\ last.tab \notin DOMAIN tab_timers
        /\ last.task \notin progress_timer \cup timeout_timer


\* The handlers that are lifecycle events of a tab.
LifecycleOps ==
    {"execute_query", "handle_query_result", "handle_query_error",
     "handle_query_timeout", "cancel_current_query", "close_tab"}

\* C13: a lifecycle event of one tab leaves, for every other tab, the
\* running_queries entry, the tab_timers entry, the state of the entry's
\* ticker and watchdog and the cancel flag of its task as they were.
C13_OtherTabsUntouched ==
    [][ last'.op \in LifecycleOps =>
        \A b \in TabIds \ {last'.tab} :
            /\ (b \in DOMAIN running_queries') = (b \in DOMAIN running_queries)
            /\ (b \in DOMAIN tab_timers') = (b \in DOMAIN tab_timers)
            /\ b \in DOMAIN running_queries =>
                   /\ running_queries'[b] = running_queries[b]
                   /\ tasks'[running_queries[b]].cancelled
                          = tasks[running_queries[b]].cancelled
            /\ b \in DOMAIN tab_timers =>
                   /\ tab_timers'[b] = tab_timers[b]
                   /\ (tab_timers[b] \in progress_timer')
                          = (tab_timers[b] \in progress_timer)
                   /\ (tab_timers[b] \in timeout_timer')
                          = (tab_timers[b] \in timeout_timer) ]_vars

\* C13: an error, a cancel, a timeout or a close has just ended the query
\* of one tab while the query of another tab runs on, its timers active.
C13_Witness ==
    /\ last.op \in {"handle_query_error", "handle_query_timeout",
                    "cancel_current_query", "close_tab"}
    /\ last.task # 0
    /\ last.tab \notin DOMAIN running_queries
    /\ \E b \in DOMAIN running_queries :
           /\ b # last.tab
           /\ ~tasks[running_queries[b]].cancelled
           /\ tab_timers[b] \in progress_timer \cap timeout_timer


\* C14: a tab whose query was accepted is eventually Idle again, the
\* timers firing being all that is assumed; and a watchdog stops being
\* armed only in a step after which its tab is Idle.
C14_AcceptedLeadsToIdle ==
    /\ \A t \in TabIds :
           (t \in DOMAIN running_queries) ~> (t \notin DOMAIN running_queries)
    /\ [][ \A k \in timeout_timer \ timeout_timer' :
               tasks[k].tab \notin DOMAIN running_queries' ]_vars

\* C14: the watchdog has just ended a task that the pool never started,
\* its only thread being held by an earlier task of the tab.
C14_Witness ==
    /\ last.op = "handle_query_timeout"
    /\ last.branch = "timed_out"
    /\ tasks[last.task].state = "queued"
    /\ last.tab \notin DOMAIN running_queries


\* C15: the finished signal of a tab's current task, handled, removes the
\* tab from running_queries and tab_timers, stops the ticker and the
\* watchdog of the task and saves one history row "Success" with the
\* connection id, the query text, the row count and the elapsed time the
\* signal carries.
C15_ResultEndsCurrentTask ==
    [][ \A k \in 1..Len(tasks) :
            (/\ tasks[k].tab \in DOMAIN running_queries
             /\ running_queries[tasks[k].tab] = k
             /\ handle_query_result(k))
            => /\ tasks[k].tab \notin DOMAIN running_queries'
               /\ tasks[k].tab \notin DOMAIN tab_timers'
               /\ k \notin progress_timer' \cup timeout_timer'
               /\ history' = Append(history,
                      [conn_id |-> tasks[k].conn, query |-> tasks[k].query,
                       status |-> "Success",
                       row_count |-> tasks[k].row_count,
                       duration |-> tasks[k].elapsed, task |-> k]) ]_vars

\* C15: the result of a query has just been handled: its tab is Idle and
\* the one history row of the task holds what the executor reported.
C15_Witness ==
    /\ last.op = "handle_query_result"
    /\ last.tab \notin DOMAIN running_queries
    /\ last.tab \notin DOMAIN tab_timers
    /\ Cardinality(EntriesOf(last.task)) = 1
    /\ history[Len(history)] =
           [conn_id |-> "c1", query |-> <<"a", ";">>, status |-> "Success",
            row_count |-> 1, duration |-> 2, task |-> last.task]

\* C16: the error signal of a tab's current task, handled, removes the tab
\* from running_queries and tab_timers, stops the ticker and the watchdog
\* of the task, saves one history row "Failed" with row count 0 and
\* duration 0 and shows the error in the tab's status label.
C16_ErrorEndsCurrentTask ==
    [][ \A k \in 1..Len(tasks) :
            (/\ tasks[k].tab \in DOMAIN running_queries
             /\ running_queries[tasks[k].tab] = k
             /\ \E text \in TextsAtEnd, conn \in ComboData :
                    handle_query_error(k, text, conn))
            => /\ tasks[k].tab \notin DOMAIN running_queries'
               /\ tasks[k].tab \notin DOMAIN tab_timers'
               /\ k \notin progress_timer' \cup timeout_timer'
               /\ Len(history') = Len(history) + 1
               /\ SubSeq(history', 1, Len(history)) = history
               /\ history'[Len(history')].task = k
               /\ history'[Len(history')].status = "Failed"
               /\ history'[Len(history')].row_count = 0
               /\ history'[Len(history')].duration = 0
               /\ tab_status_label'[tasks[k].tab] = "Error" ]_vars

\* C16: the error of a query has just been handled: its tab is Idle, shows
\* the error, and the one history row of the task is "Failed".
C16_Witness ==
    /\ last.op = "handle_query_error"
    /\ last.tab \notin DOMAIN running_queries
    /\ last.tab \notin DOMAIN tab_timers
    /\ tab_status_label[last.tab] = "Error"
    /\ Cardinality(EntriesOf(last.task)) = 1
    /\ history[Len(history)].status = "Failed"
    /\ history[Len(history)].task = last.task


\* C17: after close_tab(index) the tab that was at that index is no tab of
\* the tab widget and no key of running_queries or tab_timers, however
\* many tabs are open.
C17_CloseRemovesTab ==
    [][ \A i \in 1..Len(tab_widget) :
            close_tab(i)
            => /\ \A j \in 1..Len(tab_widget') :
                      tab_widget'[j] # tab_widget[i]
               /\ tab_widget[i] \notin DOMAIN running_queries'
               /\ tab_widget[i] \notin DOMAIN tab_timers' ]_vars

\* C17, amended: after close_tab(index) the tab that was at that index is
\* no key of running_queries or tab_timers; it is removed from the tab
\* widget, the other tabs keeping their order, when more than one tab is
\* open, and the tab widget is left as it was when it is the only tab.
C17_CloseRemovesTabUnlessLast ==
    [][ \A i \in 1..Len(tab_widget) :
            close_tab(i)
            => /\ tab_widget[i] \notin DOMAIN running_queries'
               /\ tab_widget[i] \notin DOMAIN tab_timers'
               /\ Len(tab_widget) > 1 =>
                      /\ Len(tab_widget') = Len(tab_widget) - 1
                      /\ \A j \in 1..Len(tab_widget') :
                             tab_widget'[j] =
                                 tab_widget[IF j < i THEN j ELSE j + 1]
               /\ Len(tab_widget) = 1 => tab_widget' = tab_widget ]_vars

\* C17: the only open tab has just been closed while its query ran: the
\* tab is still open, and Idle.
C17_Witness ==
    /\ last.op = "close_tab"
    /\ last.branch = "kept"
    /\ last.task # 0
    /\ tab_widget = <<last.tab>>
    /\ last.tab \notin DOMAIN running_queries
    /\ last.tab \notin DOMAIN tab_timers


\* C18: in the state in which closeEvent has accepted the close event, no
\* RunnableQuery handed to the pool is executing or queued.
C18_ClosedAfterPoolDrained ==
    window = "closed" =>
        \A k \in 1..Len(tasks) : tasks[k].state \notin {"queued", "running"}

\* C18: the window has closed on a tab still registered as running, after
\* its worker returned and emitted a signal that was never delivered.
C18_Witness ==
    /\ window = "closed"
    /\ DOMAIN running_queries # {}
    /\ signal_queue # <<>>

\* C19: in no state is the GUI thread blocked while a RunnableQuery is
\* executing or queued.
C19_GuiThreadNeverWaits ==
    ~(/\ window = "waiting"
      /\ \E k \in 1..Len(tasks) : tasks[k].state \in {"queued", "running"})


\* C21: execute_query on the current tab dispatches a task and enters the
\* tab in running_queries exactly when the editor stack shows the Query
\* view, the tab is not in running_queries, the stripped text is non-empty
\* and ends with ';' and a connection is selected; in every other case it
\* changes nothing.
C21_AcceptedIffValid ==
    [][ \A view \in Views, text \in Texts, conn \in ComboData :
            execute_query(view, text, conn, MaxTasks) =>
                LET t == current_tab
                    q == strip(text)
                    valid == /\ view = 0
                             /\ t \notin DOMAIN running_queries
                             /\ q # <<>>
                             /\ q[Len(q)] = ";"
                             /\ conn \in connections
                IN IF valid
                   THEN /\ Len(tasks') = Len(tasks) + 1
                        /\ tasks'[Len(tasks')].state \in {"queued", "running"}
                        /\ t \in DOMAIN running_queries'
                        /\ running_queries'[t] = Len(tasks')
                   ELSE UNCHANGED << tab_widget, current_index, tabs_created,
                                     connections, tab_status_label,
                                     results_stack, running_queries,
                                     tab_timers, progress_timer,
                                     timeout_timer, tasks, signal_queue,
                                     history, cancel_action, window >> ]_vars

\* C21: execute_query has just accepted a submission: the tab shows the
\* spinner page and its task is the newest one.
C21_Witness ==
    /\ last.op = "execute_query"
    /\ last.branch = "accepted"
    /\ results_stack[last.tab] = SpinnerPage
    /\ running_queries[last.tab] = Len(tasks)


\* C22: a timeout delivered for a task that is not its tab's current task
\* cancels nothing, saves nothing, stops no timer and leaves
\* running_queries and tab_timers as they were.
C22_StaleTimeoutIsNoOp ==
    [][ \A k \in 1..Len(tasks) :
            (/\ ~(/\ tasks[k].tab \in DOMAIN running_queries
                  /\ running_queries[tasks[k].tab] = k)
             /\ \E text \in TextsAtEnd, conn \in ComboData :
                    handle_query_timeout(k, text, conn))
            => UNCHANGED << tasks, history, progress_timer, running_queries,
                            tab_timers, results_stack,
                            tab_status_label >> ]_vars

\* C22: a timeout has been delivered for a task that was not its tab's
\* current task. No reachable state satisfies it, by ArmedTimersAreCurrent.
C22_StaleTimeoutDelivered ==
    /\ last.op = "handle_query_timeout"
    /\ last.branch = "stale"

\* Every armed timeout timer and every running ticker belongs to the task
\* its tab is registered with in both dictionaries.
ArmedTimersAreCurrent ==
    \A k \in timeout_timer \cup progress_timer :
        /\ tasks[k].tab \in DOMAIN running_queries
        /\ running_queries[tasks[k].tab] = k
        /\ tasks[k].tab \in DOMAIN tab_timers
        /\ tab_timers[tasks[k].tab] = k


\* C23: the history row a handler saves carries the connection id and the
\* query text its task was submitted with.
C23_HistoryCarriesSubmission ==
    [][ Len(history') = Len(history) + 1 =>
            LET r == history'[Len(history')] IN
            /\ r.task \in 1..Len(tasks)
            /\ r.query = tasks[r.task].query
            /\ r.conn_id = tasks[r.task].conn ]_vars


\* C24: a handler that waits in a modal dialog has no change of
\* running_queries or tab_timers left to make: when its dialog is closed it
\* returns with both as the handlers that ran meanwhile left them.
C24_DialogsOutsideMutations ==
    [][ Len(dialogs') < Len(dialogs) =>
            UNCHANGED << running_queries, tab_timers >> ]_vars

\* C24: a watchdog has fired, and its handler has run to its dialog, while
\* execute_query was waiting in a dialog of its own.
C24_Witness ==
    /\ Len(dialogs) = 2
    /\ dialogs[1] = "execute_query"
    /\ dialogs[2] = "handle_query_timeout"


\* C25: between handlers the cancel action is enabled exactly when
\* running_queries is not empty.
C25_CancelEnabledIffRunning ==
    cancel_action <=> DOMAIN running_queries # {}

\* C25: a handler has ended the last running query and disabled the cancel
\* action.
C25_Witness ==
    /\ EndedATask
    /\ ~cancel_action
    /\ DOMAIN running_queries = {}


\* C26: between handlers an open tab's results stack shows the spinner page
\* exactly when the tab is in running_queries.
C26_SpinnerIffRunning ==
    \A t \in OpenTabs :
        results_stack[t] = SpinnerPage <=> t \in DOMAIN running_queries


\* C27: when query_table_rows has returned for a table of a known
\* connection, the tab it opened is in running_queries.
C27_TableQueryRuns ==
    (last.op = "query_table_rows" /\ connections # {}) =>
        /\ last.tab \in OpenTabs
        /\ last.tab \in DOMAIN running_queries


\* The messages the terminal transitions write to a tab's status label.
OutcomeMessages == {"Success", "Error", "Timed Out", "Cancelled"}

\* C28: a step that makes a tab's status label show the running time is
\* taken only while the tab is registered in tab_timers and running: a
\* tab's outcome message stays until a query of the tab is accepted again.
C28_OutcomeMessageStays ==
    [][ \A t \in TabIds :
            (tab_status_label[t] # "Running" /\ tab_status_label'[t] = "Running")
            => /\ t \in DOMAIN tab_timers
               /\ t \in DOMAIN running_queries ]_vars

\* C28: a progress tick has just updated the label of a running tab while
\* another open tab, Idle, shows the outcome message of its last query.
C28_Witness ==
    /\ last.op = "update_timer_label"
    /\ last.branch = "tick"
    /\ \E t \in OpenTabs :
           /\ t \notin DOMAIN tab_timers
           /\ tab_status_label[t] \in OutcomeMessages


\* C29: the tab widget holds at least one tab in every state.
C29_AtLeastOneTab == Len(tab_widget) >= 1

\* C29: after tabs were added and closed, close_tab has been asked to close
\* the only remaining tab and has kept it.
C29_Witness ==
    /\ last.op = "close_tab"
    /\ last.branch = "kept"
    /\ Len(tab_widget) = 1
    /\ tabs_created = MaxTabs

====
